---- MODULE Spec2Model ----
(***************************************************************************)
(* Bookstore backend (Express + mysql2 over the MySQL/InnoDB schema of     *)
(* db/Sample_Quries.sql): order placement, order status, stock and book    *)
(* updates, order details, customer deletion, and the notification store   *)
(* kept in notifications.json.                                             *)
(*                                                                         *)
(* The state is the committed content of the tables, the open transaction  *)
(* and the InnoDB row locks of every pooled connection, and the position   *)
(* of every HTTP request inside its handler.  One action is one SQL        *)
(* statement (or one handler step between two awaits).                     *)
(*                                                                         *)
(* Prices are whole currency units.  The store starts with its catalogue   *)
(* and customers and with no order placed yet: the Orders, Payments and    *)
(* OrderLog rows of the sample data were not made by order placement (and  *)
(* its OrderDetails insert names a BookID that is no row of Books).        *)
(***************************************************************************)
EXTENDS Integers, Sequences, FiniteSets, TLC

\* ------------------------------------------------------------- bounds
NumReqs == 2
NumConns == 2
MaxItems == 2
MaxQty == 2
MaxPrice == 2
InitStock == 1

Reqs == 1..NumReqs
Conns == 1..NumConns

\* Identifiers a request may name: 1 is a row of the table, 4 is no row (the
\* sample data has Books 1..2 and Customers 1..3).
BookIDs == {1, 4}
CustomerIDs == {1, 4}
SeedBooks == {1}
SeedCustomers == {1}

NoConn == 0
NoRow == [Price |-> -1, Stock |-> -1]

validPaymentMethodsAndBitcoin ==
    {"Cash", "Card", "JazzCash", "EasyPaisa", "SadaPay", "Bitcoin"}
validPaymentMethods == {"Cash", "Card", "JazzCash", "EasyPaisa", "SadaPay"}

\* ------------------------------------------------------------- inputs
ItemValues == [bookId : BookIDs, quantity : 1..MaxQty]
ItemLists == UNION {[1..n -> ItemValues] : n \in 1..MaxItems}
OrderBodies == [customerId : CustomerIDs, items : ItemLists, paymentMethod : {"Cash"}]
\* Bodies the validation has to refuse; 0 stands for a missing number, <<>> for
\* a missing, non-array or empty items list, "" for a missing payment method.
BadItemValues ==
    {[bookId |-> 0, quantity |-> 1], [bookId |-> 1, quantity |-> 0],
     [bookId |-> 1, quantity |-> -1]}
GoodItemValues == [bookId : SeedBooks, quantity : 1..MaxQty]
BadItemLists ==
    {<<>>} \cup
    UNION {{l \in [1..n -> GoodItemValues \cup BadItemValues] :
               \E k \in 1..n : l[k] \in BadItemValues} : n \in 1..MaxItems}
BadOrderBodies ==
    [customerId : SeedCustomers, items : BadItemLists, paymentMethod : {"Cash"}]
    \cup [customerId : {0}, items : [1..1 -> GoodItemValues], paymentMethod : {"Cash"}]
    \cup [customerId : SeedCustomers, items : [1..1 -> GoodItemValues],
          paymentMethod : {"", "Bitcoin"}]

StockBodies == [bookId : BookIDs, stockChange : {-1, 1}]
BookBodies == [bookId : BookIDs, price : 1..MaxPrice, stock : {-1, InitStock}]
\* PUT /api/orders/:id/status: "" is a missing status, "Shipped" a string that
\* names no status; 9 is the id of no order.
OrderIDs == {1, 9}
StatusValues == {"", "Pending", "Completed", "Cancelled", "Shipped"}
StatusBodies == [orderId : OrderIDs, status : StatusValues]
\* GET /api/orders/:id/details and DELETE /api/customers/:id: req.params.id
DetailsBodies == [orderId : OrderIDs]
CustomerBodies == [customerId : CustomerIDs]
NoBody == [none |-> TRUE]

\* The notification store keeps MAX_NOTIFICATIONS_PER_CATEGORY = 100 entries per
\* list; the model keeps the same rule with a cap of one, and has one
\* notification more than a list may hold.
MAX_NOTIFICATIONS_PER_CATEGORY == 1
MaxTime == 2
\* The ids the client generates are strings; k stands for the k-th of them, and
\* 0 for a missing id.  Timestamps are counted in ticks, 0 is a missing one.
NotifIds == 1..(MAX_NOTIFICATIONS_PER_CATEGORY + 1)
\* The "read" member of a JSON body: true, false, or the string "yes"
\* (a value that is truthy and no boolean).
ReadValues == {"true", "false", "yes"}
Truthy(read) == read \in {"true", "yes"}
IsBoolean(read) == read \in {"true", "false"}
\* POST /api/notifications: req.body
NotifBodies ==
    [id : NotifIds, headline : {"h"}, message : {"m"}, timestamp : 1..MaxTime,
     read : ReadValues]
BadNotifBodies ==
    {[id |-> 0, headline |-> "h", message |-> "m", timestamp |-> 1, read |-> "false"],
     [id |-> 1, headline |-> "", message |-> "m", timestamp |-> 1, read |-> "false"],
     [id |-> 1, headline |-> "h", message |-> "", timestamp |-> 1, read |-> "false"],
     [id |-> 1, headline |-> "h", message |-> "m", timestamp |-> 0, read |-> "false"]}
\* PUT /api/notifications/:id/status: req.params.id and req.body.read
NotifStatusBodies == [id : NotifIds, read : ReadValues]
\* DELETE /api/notifications/:id: req.params.id
NotifDeleteBodies == [id : NotifIds]

VARIABLES
    Books,         \* committed Books rows: BookID -> [Price, Stock]
    Customers,     \* committed Customers rows (their ids)
    Orders,        \* committed Orders rows
    OrderDetails,  \* committed OrderDetails rows
    Payments,      \* committed Payments rows
    OrderLog,      \* committed OrderLog rows
    autoInc,       \* AUTO_INCREMENT counter of each table (not transactional)
    tx,            \* per connection: the open transaction and its uncommitted rows
    locks,         \* per connection: the Books rows it holds S and X locks on
    req,           \* per request: handler position, body, procedure variables, response
    reserved,      \* history: per book, quantity taken out of stock by committed placements
    supplied,      \* history: per book, initial stock plus committed stock adjustments
    failedOrders,  \* history: v_OrderID of every PlaceOrder call that ended in an error
    file,          \* notifications.json: whether it exists, and its two lists
    nreq,          \* per notification request: handler position, body, the lists it read
    life           \* history: per notification id, what the answered requests did to it

vars == <<Books, Customers, Orders, OrderDetails, Payments, OrderLog, autoInc,
          tx, locks, req, reserved, supplied, failedOrders, file, nreq, life>>

tables == <<Books, Customers, Orders, OrderDetails, Payments, OrderLog, reserved, supplied>>

\* The notification store, which no database handler touches.
notif == <<file, nreq, life>>

\* const emptyNotifications = { unread: [], read: [] }
emptyNotifications == [unread |-> <<>>, read |-> <<>>]

\* No notifications.json in the server's directory (ENOENT).
NoFile == [exists |-> FALSE, unread |-> <<>>, read |-> <<>>]

\* snap is what readNotificationsFile returned, data the same lists after the
\* handler has changed them in memory.
IdleNReq ==
    [op |-> "none", pc |-> "idle", body |-> NoBody, snap |-> emptyNotifications,
     data |-> emptyNotifications, status |-> 0]

\* ------------------------------------------------------------- schema
\* Books.Stock INT CHECK (Stock >= 0)
CheckStockAlways(stock) == TRUE
CheckStock(stock) == stock >= 0

\* Books.Price DECIMAL(10,2) CHECK (Price >= 0)
CheckPrice(price) == price >= 0

\* Orders.Status VARCHAR(50) DEFAULT 'Pending'
OrdersStatusDefaultCompleted == "Completed"
OrdersStatusDefault == "Pending"

\* OrderDetails.Quantity INT CHECK (Quantity > 0)
CheckQuantity(quantity) == quantity > 0

\* Payments.PaymentMethod CHECK (... IN (...)), Payments.Amount CHECK (Amount >= 0)
CheckPayment(method, amount) == method \in validPaymentMethods /\ amount >= 0

ER_NO_REFERENCED_ROW_2 ==
    [code |-> "ER_NO_REFERENCED_ROW_2",
     message |-> "Cannot add or update a child row: a foreign key constraint fails"]
ER_CHECK_CONSTRAINT_VIOLATED ==
    [code |-> "ER_CHECK_CONSTRAINT_VIOLATED", message |-> "Check constraint is violated"]
ER_LOCK_DEADLOCK ==
    [code |-> "ER_LOCK_DEADLOCK",
     message |-> "Deadlock found when trying to get lock; try restarting transaction"]
ER_LOCK_WAIT_TIMEOUT ==
    [code |-> "ER_LOCK_WAIT_TIMEOUT",
     message |-> "Lock wait timeout exceeded; try restarting transaction"]

ER_ROW_IS_REFERENCED_2 ==
    [code |-> "ER_ROW_IS_REFERENCED_2",
     message |-> "Cannot delete or update a parent row: a foreign key constraint fails"]

\* The connection to the server is gone while a query is in flight.
PROTOCOL_CONNECTION_LOST ==
    [code |-> "PROTOCOL_CONNECTION_LOST",
     message |-> "Connection lost: The server closed the connection."]

\* ------------------------------------------------------------- transactions
EmptyTx ==
    [active |-> FALSE, Orders |-> {}, OrderDetails |-> {}, Payments |-> {},
     OrderLog |-> {}, Customers |-> {}, Books |-> [b \in SeedBooks |-> NoRow],
     taken |-> [b \in SeedBooks |-> 0], added |-> [b \in SeedBooks |-> 0]]

NoLocks == [S |-> {}, X |-> {}]

\* What connection c reads of a Books row: its own uncommitted version, else
\* the committed one.
ViewBook(c, b) == IF tx[c].Books[b] # NoRow THEN tx[c].Books[b] ELSE Books[b]

\* A commit that leaves in OrderDetails only the rows of transaction t.
CommitTablesReplacing(t) ==
    /\ Books' = [b \in SeedBooks |-> IF t.Books[b] # NoRow THEN t.Books[b] ELSE Books[b]]
    /\ Customers' = Customers \ t.Customers
    /\ Orders' = {o \in Orders : \A n \in t.Orders : n.OrderID # o.OrderID} \cup t.Orders
    /\ OrderDetails' = t.OrderDetails
    /\ Payments' = Payments \cup t.Payments
    /\ OrderLog' = OrderLog \cup t.OrderLog
    /\ reserved' = [b \in SeedBooks |-> reserved[b] + t.taken[b]]
    /\ supplied' = [b \in SeedBooks |-> supplied[b] + t.added[b]]

\* The tables after the uncommitted rows of transaction t are committed.
CommitTables(t) ==
    /\ Books' = [b \in SeedBooks |-> IF t.Books[b] # NoRow THEN t.Books[b] ELSE Books[b]]
    /\ Customers' = Customers \ t.Customers
    /\ Orders' = {o \in Orders : \A n \in t.Orders : n.OrderID # o.OrderID} \cup t.Orders
    /\ OrderDetails' = OrderDetails \cup t.OrderDetails
    /\ Payments' = Payments \cup t.Payments
    /\ OrderLog' = OrderLog \cup t.OrderLog
    /\ reserved' = [b \in SeedBooks |-> reserved[b] + t.taken[b]]
    /\ supplied' = [b \in SeedBooks |-> supplied[b] + t.added[b]]

\* InnoDB row locks, held until the transaction ends: a shared lock (the
\* foreign key check of an insert) conflicts with another connection's
\* exclusive lock, an exclusive lock (an UPDATE) with any lock of another.
CanLockS(c, b) == \A d \in Conns \ {c} : b \notin locks[d].X

CanLockXAlways(c, b) == TRUE
CanLockX(c, b) == \A d \in Conns \ {c} : b \notin locks[d].X /\ b \notin locks[d].S

\* An Orders row that a transaction inserted or updated is locked by it until
\* the transaction ends.
CanLockOrder(c, id) ==
    \A d \in Conns \ {c} : \A o \in tx[d].Orders : o.OrderID # id

\* What connection c finds of the Orders row id: its own uncommitted version,
\* else the committed one, else nothing.
ViewOrder(c, id) ==
    LET own == {o \in tx[c].Orders : o.OrderID = id}
    IN  IF own # {} THEN own ELSE {o \in Orders : o.OrderID = id}

\* The Orders rows connection c finds: its own uncommitted versions, else the
\* committed ones.
ViewOrders(c) ==
    {o \in Orders : \A n \in tx[c].Orders : n.OrderID # o.OrderID} \cup tx[c].Orders

\* Customers rows connection d holds locked until its transaction ends: shared
\* for the parent of every Orders row it inserted (foreign key check),
\* exclusive for every row it deleted.
CustomerS(d) ==
    {n.CustomerID : n \in {x \in tx[d].Orders : \A o \in Orders : o.OrderID # x.OrderID}}
CustomerX(d) == tx[d].Customers
CanLockCustomerS(c, k) == \A d \in Conns \ {c} : k \notin CustomerX(d)
CanLockCustomerX(c, k) ==
    \A d \in Conns \ {c} : k \notin CustomerX(d) \cup CustomerS(d)

\* A pooled connection is free when no request holds it.
Free(c) == \A r \in Reqs : req[r].conn # c


\* ------------------------------------------------------------- requests
IdleReq ==
    [op |-> "none", pc |-> "idle", conn |-> NoConn, body |-> NoBody, i |-> 0,
     v_OrderID |-> 0, v_BookPrice |-> 0, v_TotalAmount |-> 0,
     ids |-> <<>>, upd |-> <<>>, status |-> 0, err |-> "none", json |-> NoBody]

\* The response is sent: the handler is over and holds no connection.
Done(q, status) ==
    [q EXCEPT !.pc = "done", !.conn = NoConn, !.i = 0, !.v_OrderID = 0,
              !.v_BookPrice = 0, !.v_TotalAmount = 0, !.status = status]

\* The checks made on the first item only.
ValidOrderBodyFirstItem(body) ==
    /\ body.customerId # 0
    /\ Len(body.items) # 0
    /\ body.paymentMethod \in validPaymentMethods
    /\ body.items[1].bookId # 0 /\ body.items[1].quantity > 0

\* POST /api/orders, the checks before the first query.
ValidOrderBody(body) ==
    /\ body.customerId # 0
    /\ Len(body.items) # 0
    /\ body.paymentMethod \in validPaymentMethods
    /\ \A k \in 1..Len(body.items) :
          body.items[k].bookId # 0 /\ body.items[k].quantity > 0

\* POST /api/orders, the catch block.
OrderErrorStatus(err) ==
    IF err.message = "insufficient stock" \/ err.code = "ER_ROW_IS_REFERENCED_2"
    THEN 400 ELSE 500

\* The catch block of the handler of request q.
ErrorStatus(q, err) == IF q.op = "order" THEN OrderErrorStatus(err) ELSE 500

\* The query of request r rejects with err: the procedure stops where it is
\* (PlaceOrder declares no handler), pool.query releases the connection as it
\* is, and the handler's catch block answers.
Fail(r, err) ==
    /\ req' = [req EXCEPT ![r] =
                 [Done(req[r], ErrorStatus(req[r], err)) EXCEPT !.err = err.code]]
    /\ failedOrders' = failedOrders \cup
          (IF req[r].op = "order" /\ req[r].v_OrderID # 0 THEN {req[r].v_OrderID} ELSE {})

Item(r) == req[r].body.items[req[r].i]

PostOrders(r, body) ==
    /\ req[r].pc = "idle"
    /\ req' = [req EXCEPT ![r] =
                 IF ValidOrderBody(body)
                 THEN [IdleReq EXCEPT !.op = "order", !.pc = "call", !.body = body, !.i = 1]
                 ELSE Done([IdleReq EXCEPT !.op = "order", !.body = body], 400)]
    /\ UNCHANGED <<tables, notif, autoInc, tx, locks, failedOrders>>

\* pool.query('CALL PlaceOrder(?, ?, ?, ?)') takes a free connection;
\* START TRANSACTION commits whatever transaction that connection has open.
PO_StartTransaction(r, c) ==
    /\ req[r].pc = "call"
    /\ Free(c)
    /\ CommitTables(tx[c])
    /\ tx' = [tx EXCEPT ![c] = [EmptyTx EXCEPT !.active = TRUE]]
    /\ locks' = [locks EXCEPT ![c] = NoLocks]
    /\ req' = [req EXCEPT ![r].pc = "insOrder", ![r].conn = c, ![r].v_OrderID = 0,
                          ![r].v_BookPrice = 0, ![r].v_TotalAmount = 0]
    /\ UNCHANGED <<notif, autoInc, failedOrders>>

\* INSERT INTO Orders (CustomerID) VALUES (p_CustomerID); SET v_OrderID = LAST_INSERT_ID();
PO_InsertOrders(r) ==
    /\ req[r].pc = "insOrder"
    /\ LET c == req[r].conn
           id == autoInc.Orders
       IN /\ autoInc' = [autoInc EXCEPT !.Orders = @ + 1]
          /\ IF req[r].body.customerId \in Customers
             THEN /\ CanLockCustomerS(c, req[r].body.customerId)
                  /\ tx' = [tx EXCEPT ![c].Orders = @ \cup
                               {[OrderID |-> id, CustomerID |-> req[r].body.customerId,
                                 Status |-> OrdersStatusDefault]}]
                  /\ req' = [req EXCEPT ![r].pc = "insDetail", ![r].v_OrderID = id,
                                        ![r].ids = Append(@, id)]
                  /\ UNCHANGED failedOrders
             ELSE /\ Fail(r, ER_NO_REFERENCED_ROW_2)
                  /\ UNCHANGED tx
    /\ UNCHANGED <<tables, notif, locks>>

\* INSERT INTO OrderDetails (OrderID, BookID, Quantity) VALUES (...): the CHECK
\* on Quantity, then the foreign key to Books, whose check reads the Books
\* row under a shared lock.
PO_InsertOrderDetails(r) ==
    /\ req[r].pc = "insDetail"
    /\ LET c == req[r].conn
           b == Item(r).bookId
           q == Item(r).quantity
       IN IF ~CheckQuantity(q)
          THEN /\ Fail(r, ER_CHECK_CONSTRAINT_VIOLATED)
               /\ UNCHANGED <<autoInc, tx, locks>>
          ELSE IF b \notin SeedBooks
          THEN /\ Fail(r, ER_NO_REFERENCED_ROW_2)
               /\ autoInc' = [autoInc EXCEPT !.OrderDetails = @ + 1]
               /\ UNCHANGED <<tx, locks>>
          ELSE /\ CanLockS(c, b)
               /\ locks' = [locks EXCEPT ![c].S = @ \cup {b}]
               /\ autoInc' = [autoInc EXCEPT !.OrderDetails = @ + 1]
               /\ tx' = [tx EXCEPT ![c].OrderDetails = @ \cup
                            {[OrderDetailID |-> autoInc.OrderDetails,
                              OrderID |-> req[r].v_OrderID, BookID |-> b, Quantity |-> q]}]
               /\ req' = [req EXCEPT ![r].pc = "updBooks"]
               /\ UNCHANGED failedOrders
    /\ UNCHANGED <<tables, notif>>

\* UPDATE Books ... WHERE BookID = p_BookID AND Stock >= p_Quantity
StockCondition(stock, quantity) == stock >= quantity

\* UPDATE Books SET Stock = Stock - p_Quantity WHERE ...: the row is read and
\* written under an exclusive lock kept until the transaction ends; a row the
\* condition rejects is left as it is and the statement raises no error.
PO_UpdateBooks(r) ==
    /\ req[r].pc = "updBooks"
    /\ LET c == req[r].conn
           b == Item(r).bookId
           q == Item(r).quantity
           row == ViewBook(c, b)
       IN /\ CanLockX(c, b)
          /\ locks' = [locks EXCEPT ![c].X = @ \cup {b}]
          /\ IF ~StockCondition(row.Stock, q)
             THEN /\ req' = [req EXCEPT ![r].pc = "selPrice",
                                ![r].upd = Append(@, [before |-> row.Stock, after |-> row.Stock])]
                  /\ UNCHANGED <<tx, failedOrders>>
             ELSE IF ~CheckStock(row.Stock - q)
             THEN /\ Fail(r, ER_CHECK_CONSTRAINT_VIOLATED)
                  /\ UNCHANGED tx
             ELSE /\ tx' = [tx EXCEPT ![c].Books[b] = [row EXCEPT !.Stock = @ - q],
                                      ![c].taken[b] = @ + q]
                  /\ req' = [req EXCEPT ![r].pc = "selPrice",
                                ![r].upd = Append(@, [before |-> row.Stock,
                                                      after |-> row.Stock - q])]
                  /\ UNCHANGED failedOrders
    /\ UNCHANGED <<tables, notif, autoInc>>

\* SET v_TotalAmount = v_BookPrice * p_Quantity
TotalAmountOfPrice(price, quantity) == price
TotalAmount(price, quantity) == price * quantity

\* SELECT Price INTO v_BookPrice FROM Books WHERE BookID = p_BookID
PO_SelectPrice(r) ==
    /\ req[r].pc = "selPrice"
    /\ LET price == ViewBook(req[r].conn, Item(r).bookId).Price
       IN req' = [req EXCEPT ![r].pc = "insPayment", ![r].v_BookPrice = price,
                             ![r].v_TotalAmount = TotalAmount(price, Item(r).quantity)]
    /\ UNCHANGED <<tables, notif, autoInc, tx, locks, failedOrders>>

\* INSERT INTO Payments (OrderID, PaymentMethod, Amount) VALUES (...)
PO_InsertPayments(r) ==
    /\ req[r].pc = "insPayment"
    /\ LET c == req[r].conn
       IN IF CheckPayment(req[r].body.paymentMethod, req[r].v_TotalAmount)
          THEN /\ tx' = [tx EXCEPT ![c].Payments = @ \cup
                            {[PaymentID |-> autoInc.Payments, OrderID |-> req[r].v_OrderID,
                              PaymentMethod |-> req[r].body.paymentMethod,
                              Amount |-> req[r].v_TotalAmount]}]
               /\ autoInc' = [autoInc EXCEPT !.Payments = @ + 1]
               /\ req' = [req EXCEPT ![r].pc = "insLog"]
               /\ UNCHANGED failedOrders
          ELSE /\ Fail(r, ER_CHECK_CONSTRAINT_VIOLATED)
               /\ UNCHANGED <<tx, autoInc>>
    /\ UNCHANGED <<tables, notif, locks>>

\* The procedure without its INSERT INTO OrderLog.
PO_InsertOrderLogSkipped(r) ==
    /\ req[r].pc = "insLog"
    /\ req' = [req EXCEPT ![r].pc = "commit"]
    /\ UNCHANGED <<tables, notif, autoInc, tx, locks, failedOrders>>

\* INSERT INTO OrderLog (OrderID, PaymentMethod) VALUES (...)
PO_InsertOrderLog(r) ==
    /\ req[r].pc = "insLog"
    /\ tx' = [tx EXCEPT ![req[r].conn].OrderLog = @ \cup
                 {[LogID |-> autoInc.OrderLog, OrderID |-> req[r].v_OrderID,
                   PaymentMethod |-> req[r].body.paymentMethod]}]
    /\ autoInc' = [autoInc EXCEPT !.OrderLog = @ + 1]
    /\ req' = [req EXCEPT ![r].pc = "commit"]
    /\ UNCHANGED <<tables, notif, locks, failedOrders>>

\* res.status(201).json({ message: 'Order placed successfully' })
OrderPlaced == [message |-> "Order placed successfully"]

\* COMMIT; the call resolves (its result set, SELECT v_OrderID AS OrderID,
\* v_TotalAmount AS TotalAmount, is not read), and the handler's loop goes on
\* to its next item or answers 201.
PO_Commit(r) ==
    /\ req[r].pc = "commit"
    /\ LET c == req[r].conn
       IN /\ CommitTables(tx[c])
          /\ tx' = [tx EXCEPT ![c] = EmptyTx]
          /\ locks' = [locks EXCEPT ![c] = NoLocks]
    /\ req' = [req EXCEPT ![r] =
                 IF req[r].i < Len(req[r].body.items)
                 THEN [@ EXCEPT !.pc = "call", !.conn = NoConn, !.i = @ + 1]
                 ELSE [Done(@, 201) EXCEPT !.json = OrderPlaced]]
    /\ UNCHANGED <<notif, autoInc, failedOrders>>


\* ------------------------------------------------------------- lock waits
\* The connections whose locks keep the statement request r is at from running.
Blockers(r) ==
    LET c == req[r].conn
        holdX(b) == {d \in Conns \ {c} : b \in locks[d].X}
        holdAny(b) == {d \in Conns \ {c} : b \in locks[d].X \cup locks[d].S}
    IN  IF req[r].pc = "insOrder"
        THEN IF req[r].body.customerId \in Customers
             THEN {d \in Conns \ {c} : req[r].body.customerId \in CustomerX(d)} ELSE {}
        ELSE IF req[r].pc = "custDel"
        THEN IF req[r].body.customerId \in Customers \ tx[c].Customers
             THEN {d \in Conns \ {c} :
                     req[r].body.customerId \in CustomerX(d) \cup CustomerS(d)}
             ELSE {}
        ELSE IF req[r].pc = "insDetail"
        THEN IF CheckQuantity(Item(r).quantity) /\ Item(r).bookId \in SeedBooks
                /\ ~CanLockS(c, Item(r).bookId)
             THEN holdX(Item(r).bookId) ELSE {}
        ELSE IF req[r].pc = "updBooks"
        THEN IF ~CanLockX(c, Item(r).bookId) THEN holdAny(Item(r).bookId) ELSE {}
        ELSE IF req[r].pc \in {"stockUpd", "bookUpd"}
        THEN IF req[r].body.bookId \in SeedBooks /\ ~CanLockX(c, req[r].body.bookId)
             THEN holdAny(req[r].body.bookId) ELSE {}
        ELSE IF req[r].pc = "statusUpd"
        THEN {d \in Conns \ {c} : \E o \in tx[d].Orders : o.OrderID = req[r].body.orderId}
        ELSE {}

\* The connections that connection c's running statement waits for.
WaitsFor(c) == UNION {Blockers(r) : r \in {q \in Reqs : req[q].conn = c}}

RECURSIVE Reach(_, _)
Reach(S, n) == IF n = 0 THEN S ELSE Reach(S \cup UNION {WaitsFor(d) : d \in S}, n - 1)

InCycle(c) == c \in Reach(WaitsFor(c), NumConns)

\* InnoDB finds the cycle of lock waits and rolls back the whole transaction
\* of one of its members, whose statement fails with ER_LOCK_DEADLOCK.
Deadlock(r) ==
    /\ req[r].conn # NoConn
    /\ Blockers(r) # {}
    /\ InCycle(req[r].conn)
    /\ tx' = [tx EXCEPT ![req[r].conn] = EmptyTx]
    /\ locks' = [locks EXCEPT ![req[r].conn] = NoLocks]
    /\ Fail(r, ER_LOCK_DEADLOCK)
    /\ UNCHANGED <<tables, notif, autoInc>>

\* innodb_lock_wait_timeout: the waiting statement alone fails, the
\* transaction of its connection stays open.
LockWaitTimeout(r) ==
    /\ req[r].conn # NoConn
    /\ Blockers(r) # {}
    /\ ~InCycle(req[r].conn)
    /\ Fail(r, ER_LOCK_WAIT_TIMEOUT)
    /\ UNCHANGED <<tables, notif, autoInc, tx, locks>>

\* ------------------------------------------------------------- books
\* A statement outside the procedure writes row to Books[b] on connection c:
\* inside the transaction that connection still has open, else autocommitted.
WriteBook(c, b, row, delta) ==
    IF tx[c].active
    THEN /\ tx' = [tx EXCEPT ![c].Books[b] = row, ![c].added[b] = @ + delta]
         /\ locks' = [locks EXCEPT ![c].X = @ \cup {b}]
         /\ UNCHANGED tables
    ELSE /\ CommitTables([EmptyTx EXCEPT !.Books[b] = row, !.added[b] = delta])
         /\ UNCHANGED <<tx, locks>>

\* PUT /api/books/:id/stock up to pool.query('CALL UpdateBookStock(?, ?)')
PutBookStock(r, body, c) ==
    /\ req[r].pc = "idle"
    /\ Free(c)
    /\ req' = [req EXCEPT ![r] =
                 [IdleReq EXCEPT !.op = "stock", !.pc = "stockUpd", !.body = body, !.conn = c]]
    /\ UNCHANGED <<tables, notif, autoInc, tx, locks, failedOrders>>

\* UPDATE Books SET Stock = Stock + p_StockChange
\* WHERE BookID = p_BookID AND Stock + p_StockChange >= 0
UpdateBookStock(r) ==
    /\ req[r].pc = "stockUpd"
    /\ LET c == req[r].conn
           b == req[r].body.bookId
           d == req[r].body.stockChange
       IN IF b \notin SeedBooks
          THEN UNCHANGED <<tables, tx, locks>>
          ELSE /\ CanLockX(c, b)
               /\ IF ViewBook(c, b).Stock + d >= 0
                  THEN WriteBook(c, b, [ViewBook(c, b) EXCEPT !.Stock = @ + d], d)
                  ELSE WriteBook(c, b, ViewBook(c, b), 0)
    /\ req' = [req EXCEPT ![r].pc = "stockSel", ![r].conn = NoConn,
                          ![r].upd =
                             IF req[r].body.bookId \notin SeedBooks THEN <<>>
                             ELSE LET row == ViewBook(req[r].conn, req[r].body.bookId)
                                      d == req[r].body.stockChange
                                  IN <<[before |-> row.Stock,
                                        after |-> IF row.Stock + d >= 0
                                                  THEN row.Stock + d ELSE row.Stock]>>]
    /\ UNCHANGED <<notif, autoInc, failedOrders>>

\* pool.query('SELECT Stock FROM Books WHERE BookID = ?') and the response
SelectStock(r, c) ==
    /\ req[r].pc = "stockSel"
    /\ Free(c)
    /\ req' = [req EXCEPT ![r] =
                 IF req[r].body.bookId \in SeedBooks THEN Done(@, 200) ELSE Done(@, 404)]
    /\ UNCHANGED <<tables, notif, autoInc, tx, locks, failedOrders>>

\* PUT /api/books/:id up to pool.query('UPDATE Books SET ...')
PutBook(r, body, c) ==
    /\ req[r].pc = "idle"
    /\ Free(c)
    /\ req' = [req EXCEPT ![r] =
                 [IdleReq EXCEPT !.op = "book", !.pc = "bookUpd", !.body = body, !.conn = c]]
    /\ UNCHANGED <<tables, notif, autoInc, tx, locks, failedOrders>>

\* UPDATE Books SET Title = ?, ..., Price = ?, Stock = ?, ... WHERE BookID = ?
UpdateBooks(r) ==
    /\ req[r].pc = "bookUpd"
    /\ LET c == req[r].conn
           b == req[r].body.bookId
       IN IF b \notin SeedBooks
          THEN /\ req' = [req EXCEPT ![r] = Done(@, 404)]
               /\ UNCHANGED <<tables, tx, locks, failedOrders>>
          ELSE /\ CanLockX(c, b)
               /\ IF CheckPrice(req[r].body.price) /\ CheckStock(req[r].body.stock)
                  THEN /\ WriteBook(c, b, [Price |-> req[r].body.price,
                                           Stock |-> req[r].body.stock],
                                    req[r].body.stock - ViewBook(c, b).Stock)
                       /\ req' = [req EXCEPT ![r] = Done(@, 200)]
                       /\ UNCHANGED failedOrders
                  ELSE /\ WriteBook(c, b, ViewBook(c, b), 0)
                       /\ Fail(r, ER_CHECK_CONSTRAINT_VIOLATED)
    /\ UNCHANGED <<notif, autoInc>>

\* ------------------------------------------------------------- order status
\* PUT /api/orders/:id/status up to pool.query('UPDATE Orders SET Status ...')
PutOrderStatus(r, body, c) ==
    /\ req[r].pc = "idle"
    /\ IF body.status = ""
       THEN req' = [req EXCEPT ![r] =
                      Done([IdleReq EXCEPT !.op = "status", !.body = body], 400)]
       ELSE /\ Free(c)
            /\ req' = [req EXCEPT ![r] =
                         [IdleReq EXCEPT !.op = "status", !.pc = "statusUpd",
                                         !.body = body, !.conn = c]]
    /\ UNCHANGED <<tables, notif, autoInc, tx, locks, failedOrders>>

\* UPDATE Orders SET Status = ? WHERE OrderID = ?, inside the transaction the
\* connection still has open, else autocommitted; then
\* res.json({ message: 'Order status updated successfully' }).
UpdateOrderStatus(r) ==
    /\ req[r].pc = "statusUpd"
    /\ LET c == req[r].conn
           id == req[r].body.orderId
           new == {[o EXCEPT !.Status = req[r].body.status] : o \in ViewOrder(c, id)}
       IN /\ CanLockOrder(c, id)
          /\ IF tx[c].active
             THEN /\ tx' = [tx EXCEPT ![c].Orders = {o \in @ : o.OrderID # id} \cup new]
                  /\ UNCHANGED tables
             ELSE /\ CommitTables([EmptyTx EXCEPT !.Orders = new])
                  /\ UNCHANGED tx
    /\ req' = [req EXCEPT ![r] = Done(@, 200)]
    /\ UNCHANGED <<notif, autoInc, locks, failedOrders>>

\* ------------------------------------------------------------- order details
\* GET /api/orders/:id/details up to pool.query('SELECT ... FROM OrderDetails od ...')
GetOrderDetails(r, body, c) ==
    /\ req[r].pc = "idle"
    /\ Free(c)
    /\ req' = [req EXCEPT ![r] =
                 [IdleReq EXCEPT !.op = "details", !.pc = "detailsSel",
                                 !.body = body, !.conn = c]]
    /\ UNCHANGED <<tables, notif, autoInc, tx, locks, failedOrders>>

\* SELECT od.OrderDetailID, od.OrderID, od.BookID, ..., od.Quantity, b.Price,
\* (od.Quantity * b.Price) AS LineTotal FROM OrderDetails od JOIN Books b ...
\* WHERE od.OrderID = ?, as the connection finds the rows.
LineItems(c, id) ==
    {[OrderDetailID |-> d.OrderDetailID, OrderID |-> d.OrderID, BookID |-> d.BookID,
      Quantity |-> d.Quantity, Price |-> ViewBook(c, d.BookID).Price,
      LineTotal |-> d.Quantity * ViewBook(c, d.BookID).Price] :
        d \in {x \in OrderDetails \cup tx[c].OrderDetails : x.OrderID = id}}

\* The query and res.json(result)
SelectOrderDetails(r) ==
    /\ req[r].pc = "detailsSel"
    /\ req' = [req EXCEPT ![r] =
                 [Done(@, 200) EXCEPT !.json = [rows |-> LineItems(req[r].conn,
                                                                  req[r].body.orderId)]]]
    /\ UNCHANGED <<tables, notif, autoInc, tx, locks, failedOrders>>

\* ------------------------------------------------------------- customers
\* DELETE /api/customers/:id up to pool.query('SELECT COUNT(*) ...')
DeleteCustomers(r, body, c) ==
    /\ req[r].pc = "idle"
    /\ Free(c)
    /\ req' = [req EXCEPT ![r] =
                 [IdleReq EXCEPT !.op = "customer", !.pc = "custCount",
                                 !.body = body, !.conn = c]]
    /\ UNCHANGED <<tables, notif, autoInc, tx, locks, failedOrders>>

\* SELECT COUNT(*) as OrderCount FROM Orders WHERE CustomerID = ?
OrderCount(c, k) == Cardinality({o \in ViewOrders(c) : o.CustomerID = k})

\* The count query and if (ordersCheck[0].OrderCount > 0) return 400
CountOrders(r) ==
    /\ req[r].pc = "custCount"
    /\ req' = [req EXCEPT ![r] =
                 IF OrderCount(req[r].conn, req[r].body.customerId) > 0
                 THEN Done(@, 400)
                 ELSE [@ EXCEPT !.pc = "custDelCall", !.conn = NoConn]]
    /\ UNCHANGED <<tables, notif, autoInc, tx, locks, failedOrders>>

\* pool.query('DELETE FROM Customers WHERE CustomerID = ?') takes a connection
DeleteCall(r, c) ==
    /\ req[r].pc = "custDelCall"
    /\ Free(c)
    /\ req' = [req EXCEPT ![r].pc = "custDel", ![r].conn = c]
    /\ UNCHANGED <<tables, notif, autoInc, tx, locks, failedOrders>>

\* DELETE FROM Customers WHERE CustomerID = ?: no row is 404; the row is locked
\* exclusively; Orders rows that reference it make the statement fail
\* (FOREIGN KEY (CustomerID) REFERENCES Customers, no ON DELETE action); else
\* the row is deleted, inside the transaction the connection still has open
\* or autocommitted.
DeleteCustomer(r) ==
    /\ req[r].pc = "custDel"
    /\ LET c == req[r].conn
           k == req[r].body.customerId
       IN IF k \notin Customers \ tx[c].Customers
          THEN /\ req' = [req EXCEPT ![r] = Done(@, 404)]
               /\ UNCHANGED <<tables, tx, failedOrders>>
          ELSE /\ CanLockCustomerX(c, k)
               /\ IF OrderCount(c, k) > 0
                  THEN /\ Fail(r, ER_ROW_IS_REFERENCED_2)
                       /\ UNCHANGED <<tables, tx>>
                  ELSE /\ req' = [req EXCEPT ![r] = Done(@, 200)]
                       /\ UNCHANGED failedOrders
                       /\ IF tx[c].active
                          THEN /\ tx' = [tx EXCEPT ![c].Customers = @ \cup {k}]
                               /\ UNCHANGED tables
                          ELSE /\ CommitTables([EmptyTx EXCEPT !.Customers = {k}])
                               /\ UNCHANGED tx
    /\ UNCHANGED <<notif, autoInc, locks>>

\* ------------------------------------------------------------- storage outage
\* The server goes away while the query of request r is in flight: the query
\* rejects, the server side of the connection is gone and with it the
\* transaction it had open, and the pool drops the connection.
ConnectionLost(r) ==
    /\ req[r].conn # NoConn
    /\ tx' = [tx EXCEPT ![req[r].conn] = EmptyTx]
    /\ locks' = [locks EXCEPT ![req[r].conn] = NoLocks]
    /\ Fail(r, PROTOCOL_CONNECTION_LOST)
    /\ UNCHANGED <<tables, notif, autoInc>>

\* ------------------------------------------------------------- notifications
\* The database side, which no notification handler touches.
db == <<tables, autoInc, tx, locks, req, failedOrders>>

\* The two lists of notifications.json.
Lists(f) == [unread |-> f.unread, read |-> f.read]

\* list.sort((a, b) => new Date(b.timestamp) - new Date(a.timestamp)): newest
\* first, and notifications of the same time keep their order (the sort is
\* stable).
InsertDesc(n, l) ==
    LET k == Cardinality({i \in DOMAIN l : l[i].timestamp > n.timestamp})
    IN  SubSeq(l, 1, k) \o <<n>> \o SubSeq(l, k + 1, Len(l))
RECURSIVE SortDesc(_)
SortDesc(l) == IF l = <<>> THEN <<>> ELSE InsertDesc(Head(l), SortDesc(Tail(l)))

Ids(l) == {l[i].id : i \in DOMAIN l}

\* list.slice(0, n)
Slice(l, n) == SubSeq(l, 1, IF Len(l) < n THEN Len(l) ELSE n)
\* list.findIndex(n => n.id === notificationId), counted from 1; 0 is "none"
FindIndex(l, id) ==
    IF \E i \in DOMAIN l : l[i].id = id
    THEN CHOOSE i \in DOMAIN l : l[i].id = id /\ \A j \in 1..(i - 1) : l[j].id # id
    ELSE 0
\* list.splice(i, 1)
Splice(l, i) == SubSeq(l, 1, i - 1) \o SubSeq(l, i + 1, Len(l))
\* list.filter(n => n.id !== notificationId)
FilterOut(l, id) == SelectSeq(l, LAMBDA n : n.id # id)

\* POST /api/notifications: the validation of the body
ValidNotification(n) ==
    n.id # 0 /\ n.headline # "" /\ n.message # "" /\ n.timestamp # 0

\* POST /api/notifications: the body goes, as it is, to the front of the list
\* its "read" member names, and each list is cut to its first
\* MAX_NOTIFICATIONS_PER_CATEGORY entries.
AddNotification(d, n) ==
    LET unread == IF Truthy(n.read) THEN d.unread ELSE <<n>> \o d.unread
        read == IF Truthy(n.read) THEN <<n>> \o d.read ELSE d.read
    IN  [unread |-> Slice(unread, MAX_NOTIFICATIONS_PER_CATEGORY),
         read |-> Slice(read, MAX_NOTIFICATIONS_PER_CATEGORY)]

\* PUT /api/notifications/:id/status: source and target list of the move
SourceList(d, read) == IF read = "true" THEN d.unread ELSE d.read
TargetList(d, read) == IF read = "true" THEN d.read ELSE d.unread
\* The notification leaves the source list, takes the new flag, goes to the
\* front of the target list, and the target list is sorted.
SetStatus(d, id, read) ==
    LET source == SourceList(d, read)
        i == FindIndex(source, id)
        target == SortDesc(<<[source[i] EXCEPT !.read = read]>> \o TargetList(d, read))
    IN  IF i = 0 THEN d
        ELSE IF read = "true"
             THEN [unread |-> Splice(source, i), read |-> target]
             ELSE [unread |-> target, read |-> Splice(source, i)]

\* PUT /api/notifications/mark-all-read, taken when the unread list is not empty
MarkAllRead(d) ==
    [unread |-> <<>>,
     read |-> SortDesc([i \in DOMAIN d.unread |-> [d.unread[i] EXCEPT !.read = "true"]]
                       \o d.read)]

\* DELETE /api/notifications/:id
DeleteNotification(d, id) ==
    [unread |-> FilterOut(d.unread, id), read |-> FilterOut(d.read, id)]

\* The response; the handler's variables are gone with it.
Answer(q, status) == [IdleNReq EXCEPT !.op = q.op, !.pc = "done", !.status = status]
Write(q, d) == [q EXCEPT !.pc = "write", !.data = d]

\* A handler from the return of readNotificationsFile to its next await (the
\* write of the file) or to its response.
Handle(q0, d) ==
    LET q == [q0 EXCEPT !.snap = d, !.data = d]
    IN  CASE q.op = "create" -> Write(q, AddNotification(d, q.body))
          [] q.op = "status" ->
                IF FindIndex(SourceList(d, q.body.read), q.body.id) > 0
                THEN Write(q, SetStatus(d, q.body.id, q.body.read))
                ELSE IF FindIndex(TargetList(d, q.body.read), q.body.id) > 0
                     THEN Answer(q, 200)
                     ELSE Answer(q, 404)
          [] q.op = "markAll" ->
                IF Len(d.unread) > 0 THEN Write(q, MarkAllRead(d)) ELSE Answer(q, 200)
          [] q.op = "delete" ->
                IF Len(d.unread) + Len(d.read)
                     > Len(FilterOut(d.unread, q.body.id)) + Len(FilterOut(d.read, q.body.id))
                THEN Write(q, DeleteNotification(d, q.body.id))
                ELSE Answer(q, 404)

Arrives(r) == nreq[r].pc \in {"idle", "done"}
Begin(op, body) == [IdleNReq EXCEPT !.op = op, !.body = body, !.pc = "read"]

\* POST /api/notifications.  The client gives every notification an id of its
\* own (generateNotificationId).
PostNotification(r, body) ==
    /\ Arrives(r)
    /\ body.id # 0 => life[body.id] = "new"
    /\ IF ValidNotification(body)
       THEN /\ nreq' = [nreq EXCEPT ![r] = Begin("create", body)]
            /\ life' = [life EXCEPT ![body.id] = "sent"]
       ELSE /\ nreq' = [nreq EXCEPT ![r] =
                          Answer([IdleNReq EXCEPT !.op = "create", !.body = body], 400)]
            /\ UNCHANGED life
    /\ UNCHANGED <<db, file>>

\* PUT /api/notifications/:id/status
PutNotificationStatus(r, body) ==
    /\ Arrives(r)
    /\ nreq' = [nreq EXCEPT ![r] =
                  IF IsBoolean(body.read) THEN Begin("status", body)
                  ELSE Answer([IdleNReq EXCEPT !.op = "status", !.body = body], 400)]
    /\ UNCHANGED <<db, file, life>>

\* PUT /api/notifications/mark-all-read
PutMarkAllRead(r) ==
    /\ Arrives(r)
    /\ nreq' = [nreq EXCEPT ![r] = Begin("markAll", NoBody)]
    /\ UNCHANGED <<db, file, life>>

\* DELETE /api/notifications/:id
DeleteNotifications(r, body) ==
    /\ Arrives(r)
    /\ nreq' = [nreq EXCEPT ![r] = Begin("delete", body)]
    /\ UNCHANGED <<db, file, life>>

\* readNotificationsFile: the file is there and is read, or fs.access fails
\* with ENOENT and the empty file is about to be written.
readNotificationsFile(r) ==
    /\ nreq[r].pc = "read"
    /\ nreq' = [nreq EXCEPT ![r] =
                  IF file.exists THEN Handle(nreq[r], Lists(file))
                  ELSE [nreq[r] EXCEPT !.pc = "enoent"]]
    /\ UNCHANGED <<db, file, life>>

\* readNotificationsFile after ENOENT: writeNotificationsFile(emptyNotifications),
\* whatever the file holds by now, and the handler goes on with empty lists.
WriteEmptyNotifications(r) ==
    /\ nreq[r].pc = "enoent"
    /\ file' = [exists |-> TRUE, unread |-> <<>>, read |-> <<>>]
    /\ nreq' = [nreq EXCEPT ![r] = Handle(nreq[r], emptyNotifications)]
    /\ UNCHANGED <<db, life>>

\* The change a handler made to the lists it read, applied to the history: the
\* list each notification was put in, "gone" for one it took out.
Acknowledged(l, snap, data) ==
    [k \in NotifIds |->
        CASE k \in Ids(data.unread) \ Ids(snap.unread) -> "unread"
          [] k \in Ids(data.read) \ Ids(snap.read) -> "read"
          [] k \in (Ids(snap.unread) \cup Ids(snap.read))
                     \ (Ids(data.unread) \cup Ids(data.read)) -> "gone"
          [] OTHER -> l[k]]

\* writeNotificationsFile(notifications) and the response that follows it.
writeNotificationsFile(r) ==
    /\ nreq[r].pc = "write"
    /\ file' = [exists |-> TRUE, unread |-> nreq[r].data.unread, read |-> nreq[r].data.read]
    /\ nreq' = [nreq EXCEPT ![r] = Answer(nreq[r], IF nreq[r].op = "create" THEN 201 ELSE 200)]
    /\ life' = Acknowledged(life, nreq[r].snap, nreq[r].data)
    /\ UNCHANGED db

\* ------------------------------------------------------------- specification
Init ==
    /\ Books = [b \in SeedBooks |-> [Price |-> 1, Stock |-> InitStock]]
    /\ Customers = SeedCustomers
    /\ Orders = {}
    /\ OrderDetails = {}
    /\ Payments = {}
    /\ OrderLog = {}
    /\ autoInc = [Orders |-> 1, OrderDetails |-> 1, Payments |-> 1, OrderLog |-> 1]
    /\ tx = [c \in Conns |-> EmptyTx]
    /\ locks = [c \in Conns |-> NoLocks]
    /\ req = [r \in Reqs |-> IdleReq]
    /\ reserved = [b \in SeedBooks |-> 0]
    /\ supplied = [b \in SeedBooks |-> InitStock]
    /\ failedOrders = {}
    /\ file = NoFile
    /\ nreq = [r \in Reqs |-> IdleNReq]
    /\ life = [k \in NotifIds |-> "new"]

Next ==
    \/ \E r \in Reqs, body \in OrderBodies \cup BadOrderBodies : PostOrders(r, body)
    \/ \E r \in Reqs, c \in Conns : PO_StartTransaction(r, c)
    \/ \E r \in Reqs : PO_InsertOrders(r)
    \/ \E r \in Reqs : PO_InsertOrderDetails(r)
    \/ \E r \in Reqs : PO_UpdateBooks(r)
    \/ \E r \in Reqs : PO_SelectPrice(r)
    \/ \E r \in Reqs : PO_InsertPayments(r)
    \/ \E r \in Reqs : PO_InsertOrderLog(r)
    \/ \E r \in Reqs : PO_Commit(r)
    \/ \E r \in Reqs : Deadlock(r)
    \/ \E r \in Reqs : LockWaitTimeout(r)
    \/ \E r \in Reqs, body \in StockBodies, c \in Conns : PutBookStock(r, body, c)
    \/ \E r \in Reqs : UpdateBookStock(r)
    \/ \E r \in Reqs, c \in Conns : SelectStock(r, c)
    \/ \E r \in Reqs, body \in BookBodies, c \in Conns : PutBook(r, body, c)
    \/ \E r \in Reqs : UpdateBooks(r)
    \/ \E r \in Reqs, body \in StatusBodies, c \in Conns : PutOrderStatus(r, body, c)
    \/ \E r \in Reqs : UpdateOrderStatus(r)
    \/ \E r \in Reqs : ConnectionLost(r)
    \/ \E r \in Reqs, body \in DetailsBodies, c \in Conns : GetOrderDetails(r, body, c)
    \/ \E r \in Reqs : SelectOrderDetails(r)
    \/ \E r \in Reqs, body \in CustomerBodies, c \in Conns : DeleteCustomers(r, body, c)
    \/ \E r \in Reqs : CountOrders(r)
    \/ \E r \in Reqs, c \in Conns : DeleteCall(r, c)
    \/ \E r \in Reqs : DeleteCustomer(r)

Spec == Init /\ [][Next]_vars

\* The store after one placement has been served and answered 201: customer 1
\* bought the one unit of book 1.
InitPlaced ==
    /\ Books = [b \in SeedBooks |-> [Price |-> 1, Stock |-> InitStock - 1]]
    /\ Customers = SeedCustomers
    /\ Orders = {[OrderID |-> 1, CustomerID |-> 1, Status |-> OrdersStatusDefault]}
    /\ OrderDetails = {[OrderDetailID |-> 1, OrderID |-> 1, BookID |-> 1, Quantity |-> 1]}
    /\ Payments = {[PaymentID |-> 1, OrderID |-> 1, PaymentMethod |-> "Cash",
                    Amount |-> TotalAmount(1, 1)]}
    /\ OrderLog = {[LogID |-> 1, OrderID |-> 1, PaymentMethod |-> "Cash"]}
    /\ autoInc = [Orders |-> 2, OrderDetails |-> 2, Payments |-> 2, OrderLog |-> 2]
    /\ tx = [c \in Conns |-> EmptyTx]
    /\ locks = [c \in Conns |-> NoLocks]
    /\ req = [r \in Reqs |-> IdleReq]
    /\ reserved = [b \in SeedBooks |-> 1]
    /\ supplied = [b \in SeedBooks |-> InitStock]
    /\ failedOrders = {}
    /\ file = NoFile
    /\ nreq = [r \in Reqs |-> IdleNReq]
    /\ life = [k \in NotifIds |-> "new"]

SpecPlaced == InitPlaced /\ [][Next]_vars

\* The notification handlers, which share nothing with the database handlers.
NextNotif ==
    \/ \E r \in Reqs, body \in NotifBodies \cup BadNotifBodies : PostNotification(r, body)
    \/ \E r \in Reqs, body \in NotifStatusBodies : PutNotificationStatus(r, body)
    \/ \E r \in Reqs : PutMarkAllRead(r)
    \/ \E r \in Reqs, body \in NotifDeleteBodies : DeleteNotifications(r, body)
    \/ \E r \in Reqs : readNotificationsFile(r)
    \/ \E r \in Reqs : WriteEmptyNotifications(r)
    \/ \E r \in Reqs : writeNotificationsFile(r)

SpecNotif == Init /\ [][NextNotif]_vars


\* ------------------------------------------------------------- claims
RECURSIVE SumQuantity(_)
SumQuantity(ds) ==
    IF ds = {} THEN 0
    ELSE LET d == CHOOSE x \in ds : TRUE IN d.Quantity + SumQuantity(ds \ {d})

RECURSIVE SumLines(_, _)
SumLines(ds, bk) ==
    IF ds = {} THEN 0
    ELSE LET d == CHOOSE x \in ds : TRUE
         IN d.Quantity * bk[d.BookID].Price + SumLines(ds \ {d}, bk)

OrderDone(r) == req[r].op = "order" /\ req[r].pc = "done"

\* A request for one unit of book b by an existing customer.
LastUnitOrder(r, b) ==
    /\ OrderDone(r)
    /\ req[r].body.customerId \in SeedCustomers
    /\ req[r].body.items = <<[bookId |-> b, quantity |-> 1]>>

\* C1: when two placements each ask for the one unit a book ever had in stock,
\* then once both are answered exactly one was answered 201 and the other 400.
C1_ExactlyOneSucceeds ==
    \A r1, r2 \in Reqs : \A b \in SeedBooks :
        (r1 # r2 /\ supplied[b] = 1 /\ LastUnitOrder(r1, b) /\ LastUnitOrder(r2, b))
        => \/ req[r1].status = 201 /\ req[r2].status = 400
           \/ req[r1].status = 400 /\ req[r2].status = 201

\* C2: the quantity that committed placements took out of a book's stock never
\* exceeds the stock that was made available (initial stock plus committed
\* adjustments), and what is left is exactly the difference.
C2_NeverOverReserved ==
    \A b \in SeedBooks :
        /\ reserved[b] <= supplied[b]
        /\ Books[b].Stock = supplied[b] - reserved[b]

\* C2 witness: a placement holds the uncommitted reservation of a book's last
\* unit while another placement of the same book waits for its row.
C2_Witness ==
    \E r1, r2 \in Reqs : \E b \in SeedBooks :
        /\ r1 # r2
        /\ req[r1].op = "order" /\ req[r1].pc = "selPrice"
        /\ tx[req[r1].conn].taken[b] > 0
        /\ tx[req[r1].conn].Books[b].Stock = 0
        /\ req[r2].op = "order" /\ req[r2].pc = "insDetail"
        /\ Item(r2).bookId = b
        /\ Blockers(r2) # {}

\* C3: every book's quantity on hand is >= 0, committed or not.
C3_StockNonNegative ==
    \A b \in SeedBooks :
        /\ Books[b].Stock >= 0
        /\ \A c \in Conns : tx[c].Books[b] # NoRow => tx[c].Books[b].Stock >= 0

\* C3 witness: a placement took the last unit and a book update asking for a
\* negative stock was refused.
C3_Witness ==
    \E r1, r2 \in Reqs : \E b \in SeedBooks :
        /\ OrderDone(r1) /\ req[r1].status = 201
        /\ reserved[b] > 0 /\ Books[b].Stock = 0
        /\ req[r2].op = "book" /\ req[r2].pc = "done"
        /\ req[r2].body.bookId = b /\ req[r2].body.stock < 0
        /\ req[r2].status = 500

\* C4: a placement with an item whose quantity exceeds the stock it finds
\* leaves that stock unchanged and is answered 400.
C4_InsufficientStockIs400 ==
    \A r \in Reqs :
        OrderDone(r) =>
            \A k \in DOMAIN req[r].upd :
                req[r].body.items[k].quantity > req[r].upd[k].before
                => /\ req[r].upd[k].after = req[r].upd[k].before
                   /\ req[r].status = 400

\* C5: a placement answered 201 has, for every line item, lowered the book's
\* stock by the ordered quantity.
C5_StockLoweredByQuantity ==
    \A r \in Reqs :
        (OrderDone(r) /\ req[r].status = 201) =>
            /\ Len(req[r].upd) = Len(req[r].body.items)
            /\ \A k \in DOMAIN req[r].upd :
                  req[r].upd[k].after = req[r].upd[k].before - req[r].body.items[k].quantity

\* C6: for each book, the quantities of its committed line items add up to
\* what placements took out of its stock.
C6_LineItemsMatchReserved ==
    \A b \in SeedBooks :
        SumQuantity({d \in OrderDetails : d.BookID = b}) = reserved[b]

\* C7: a payment is committed with the amount that is the sum over its order's
\* line items of quantity times the book's price as committed at that moment.
C7_PaymentIsPriceTimesQuantity ==
    [][\A p \in Payments' \ Payments :
          p.Amount = SumLines({d \in OrderDetails' : d.OrderID = p.OrderID}, Books')]_vars

\* C7 witness: a placement has its payment ready to commit while a book update
\* that changes the price of its book waits for the row.
C7_Witness ==
    \E r1, r2 \in Reqs :
        /\ req[r1].op = "order" /\ req[r1].pc = "commit"
        /\ req[r1].v_TotalAmount = Item(r1).quantity * Books[Item(r1).bookId].Price
        /\ req[r2].op = "book" /\ req[r2].pc = "bookUpd"
        /\ req[r2].body.bookId = Item(r1).bookId
        /\ req[r2].body.price # Books[Item(r1).bookId].Price
        /\ Blockers(r2) # {}

\* C8: every order in storage has exactly one payment and exactly one audit
\* log entry.
C8_OnePaymentOneLogEntry ==
    \A o \in Orders :
        /\ Cardinality({p \in Payments : p.OrderID = o.OrderID}) = 1
        /\ Cardinality({l \in OrderLog : l.OrderID = o.OrderID}) = 1

\* C9: no order is in storage without at least one line item.
C9_NoOrderWithoutLineItem ==
    \A o \in Orders : \E d \in OrderDetails : d.OrderID = o.OrderID

\* C10: storage holds no Order row, line item, payment or audit entry made by
\* a PlaceOrder call that ended in an error.
C10_FailedCallLeavesNothing ==
    \A id \in failedOrders :
        /\ \A o \in Orders : o.OrderID # id
        /\ \A d \in OrderDetails : d.OrderID # id
        /\ \A p \in Payments : p.OrderID # id
        /\ \A l \in OrderLog : l.OrderID # id

\* The ids of the orders that the PlaceOrder calls of request r inserted.
OrderIdsOf(r) == {req[r].ids[k] : k \in DOMAIN req[r].ids}

\* C11: a placement request that was not answered 201 has left nothing
\* committed: no order, line item, payment or audit entry of the items whose
\* call had completed before the failing one.
C11_AllOrNothing ==
    \A r \in Reqs :
        (OrderDone(r) /\ req[r].status # 201) =>
            \A id \in OrderIdsOf(r) \ failedOrders :
                /\ \A o \in Orders : o.OrderID # id
                /\ \A d \in OrderDetails : d.OrderID # id
                /\ \A p \in Payments : p.OrderID # id
                /\ \A l \in OrderLog : l.OrderID # id

\* C12: a placement request answered 201 has made exactly one order, which
\* carries one line item per item of the request, one payment and one audit
\* entry.
C12_OneOrderPerRequest ==
    \A r \in Reqs :
        (OrderDone(r) /\ req[r].status = 201) =>
            /\ Cardinality(OrderIdsOf(r)) = 1
            /\ \A id \in OrderIdsOf(r) :
                  /\ Cardinality({d \in OrderDetails : d.OrderID = id})
                        = Len(req[r].body.items)
                  /\ Cardinality({p \in Payments : p.OrderID = id}) = 1
                  /\ Cardinality({l \in OrderLog : l.OrderID = id}) = 1

\* A body with no customer, no item, a payment method that is none of the
\* five, or an item at any position with no book or a quantity <= 0.
Refused(body) ==
    \/ body.customerId = 0
    \/ body.items = <<>>
    \/ body.paymentMethod \notin {"Cash", "Card", "JazzCash", "EasyPaisa", "SadaPay"}
    \/ \E k \in DOMAIN body.items :
          body.items[k].bookId = 0 \/ body.items[k].quantity <= 0

\* C13: a placement request with such a body is answered 400 in the step that
\* receives it, and that step changes no table, counter, transaction or lock.
C13_RefusedBeforeAnyQuery ==
    [][\A r \in Reqs :
          (req[r].pc = "idle" /\ req'[r].op = "order" /\ Refused(req'[r].body))
          => /\ req'[r].pc = "done" /\ req'[r].status = 400
             /\ UNCHANGED <<tables, notif, autoInc, tx, locks>>]_vars

\* C13 witness: a request whose first item is valid and whose second item has
\* quantity <= 0 was answered 400 and no PlaceOrder call was made for it.
C13_Witness ==
    \E r \in Reqs :
        /\ OrderDone(r) /\ req[r].status = 400
        /\ Len(req[r].body.items) = 2
        /\ req[r].body.items[1] \in GoodItemValues
        /\ req[r].body.items[2].quantity <= 0
        /\ req[r].ids = <<>> /\ req[r].upd = <<>>
        /\ autoInc.Orders = 1

\* A status-update request for order id that asked for status st has run its
\* UPDATE.
StatusUpdated(id, st) ==
    \E r \in Reqs :
        /\ req[r].op = "status" /\ req[r].pc = "done" /\ req[r].err = "none"
        /\ req[r].body.orderId = id /\ req[r].body.status = st /\ st # ""

\* Every version of every Orders row, committed or not.
AllOrderRows == Orders \cup UNION {tx[c].Orders : c \in Conns}

\* C14: a step that makes a new Orders row makes it with status Pending, and
\* an order has a status other than Pending only when a status-update request
\* for that order asked for that status.
C14_PendingUntilStatusUpdate ==
    /\ [][\A n \in (UNION {tx'[c].Orders : c \in Conns}) \cup Orders' :
             (\A o \in AllOrderRows : o.OrderID # n.OrderID) => n.Status = "Pending"]_vars
    /\ [](\A o \in AllOrderRows : o.Status = "Pending" \/ StatusUpdated(o.OrderID, o.Status))

\* C14 witness: of two committed orders, one was set to Completed by a
\* status-update request and the other, which no request named, is Pending.
C14_Witness ==
    \E o1, o2 \in Orders :
        /\ o1.OrderID # o2.OrderID
        /\ o1.Status = "Completed" /\ StatusUpdated(o1.OrderID, "Completed")
        /\ o2.Status = "Pending"
        /\ \E p \in Payments : p.OrderID = o2.OrderID

\* C15: every order's status is one of Pending, Completed, Cancelled.
C15_StatusInEnum ==
    \A o \in Orders : o.Status \in {"Pending", "Completed", "Cancelled"}

\* C16: among Pending, Completed and Cancelled, a step changes the committed
\* status of an order only from Pending to Completed or from Pending to
\* Cancelled.
C16_StatusStateMachine ==
    [][\A o \in Orders, n \in Orders' :
          (/\ o.OrderID = n.OrderID /\ o.Status # n.Status
           /\ o.Status \in {"Pending", "Completed", "Cancelled"}
           /\ n.Status \in {"Pending", "Completed", "Cancelled"})
          => o.Status = "Pending"]_vars

\* C17: a placement whose PlaceOrder call failed on a foreign key (unknown
\* customer or unknown book) is answered 400, and the order of that call is
\* not in storage.
C17_UnknownReferenceIs400 ==
    \A r \in Reqs :
        (OrderDone(r) /\ req[r].err = "ER_NO_REFERENCED_ROW_2") =>
            /\ req[r].status = 400
            /\ \A o \in Orders : o.OrderID \notin OrderIdsOf(r) \cap failedOrders

\* C18: a placement whose query failed because the connection to storage was
\* lost is answered 503.
C18_OutageIs503 ==
    \A r \in Reqs :
        (OrderDone(r) /\ req[r].err = "PROTOCOL_CONNECTION_LOST") => req[r].status = 503

\* C19: the step in which the UPDATE of a status-update request runs for an
\* id that no Orders row has answers 404 and changes no table.
C19_UnknownOrderIs404 ==
    [][\A r \in Reqs :
          (/\ req[r].pc = "statusUpd" /\ req'[r].pc = "done" /\ req'[r].err = "none"
           /\ \A o \in AllOrderRows : o.OrderID # req[r].body.orderId)
          => /\ req'[r].status = 404
             /\ UNCHANGED tables]_vars

RECURSIVE SumAmount(_)
SumAmount(ps) ==
    IF ps = {} THEN 0
    ELSE LET p == CHOOSE x \in ps : TRUE IN p.Amount + SumAmount(ps \ {p})

\* C20: the body of a 201 response carries orderId, the id of an order the
\* request made, and totalAmount, the sum of the amounts paid for the
\* request's items.
C20_ResponseHasIdAndTotal ==
    \A r \in Reqs :
        (OrderDone(r) /\ req[r].status = 201) =>
            /\ {"orderId", "totalAmount"} \subseteq DOMAIN req[r].json
            /\ req[r].json.orderId \in OrderIdsOf(r)
            /\ req[r].json.totalAmount =
                  SumAmount({p \in Payments : p.OrderID \in OrderIdsOf(r)})

\* Every version of every Payments row, committed or not.
AllPaymentRows == Payments \cup UNION {tx[c].Payments : c \in Conns}

\* C21: every payment's method is one of SadaPay, EasyPaisa, JazzCash, Card,
\* Cash, and a placement request that names another method was answered 400
\* without any of its PlaceOrder calls having been made.
C21_PaymentMethodInEnum ==
    /\ \A p \in AllPaymentRows :
          p.PaymentMethod \in {"SadaPay", "EasyPaisa", "JazzCash", "Card", "Cash"}
    /\ \A r \in Reqs :
          (/\ req[r].op = "order"
           /\ req[r].body.paymentMethod
                 \notin {"SadaPay", "EasyPaisa", "JazzCash", "Card", "Cash"})
          => /\ req[r].pc = "done" /\ req[r].status = 400
             /\ req[r].ids = <<>> /\ req[r].upd = <<>>

\* C21 witness: a request naming the method Bitcoin was answered 400 and a
\* payment of another request, made in Cash, is committed.
C21_Witness ==
    /\ \E r \in Reqs :
          /\ OrderDone(r) /\ req[r].body.paymentMethod = "Bitcoin"
          /\ req[r].status = 400
    /\ \E p \in Payments : p.PaymentMethod = "Cash"

\* C22: no step changes or removes a committed line item.
C22_LineItemsImmutable == [][OrderDetails \subseteq OrderDetails']_vars

\* C22 witness: the line item of an order is committed, and a request to delete
\* the customer of that order was answered.
C22_Witness ==
    \E d \in OrderDetails : \E o \in Orders : \E r \in Reqs :
        /\ o.OrderID = d.OrderID
        /\ req[r].op = "customer" /\ req[r].pc = "done"
        /\ req[r].body.customerId = o.CustomerID

\* C23: no step changes or removes a committed audit entry; the COMMIT of a
\* PlaceOrder call adds exactly one entry, which carries the call's order id;
\* and every committed entry is the only one of its order and carries the
\* payment method of that order's payment.
C23_AuditLogAppendOnly ==
    /\ [][OrderLog \subseteq OrderLog']_vars
    /\ [][\A r \in Reqs :
             (req[r].pc = "commit" /\ req'[r].pc # "commit" /\ req'[r].err = "none")
             => /\ Cardinality(OrderLog' \ OrderLog) = 1
                /\ \A l \in OrderLog' \ OrderLog : l.OrderID = req[r].v_OrderID]_vars
    /\ [](\A l \in OrderLog :
             /\ Cardinality({m \in OrderLog : m.OrderID = l.OrderID}) = 1
             /\ \E p \in Payments :
                   p.OrderID = l.OrderID /\ p.PaymentMethod = l.PaymentMethod
             /\ \A p \in Payments :
                   p.OrderID = l.OrderID => p.PaymentMethod = l.PaymentMethod)

\* C23 witness: the audit log holds the entries of two orders.
C23_Witness ==
    \E l1, l2 \in OrderLog :
        /\ l1.OrderID # l2.OrderID
        /\ \E o \in Orders : o.OrderID = l1.OrderID
        /\ \E o \in Orders : o.OrderID = l2.OrderID

RECURSIVE SumLineTotal(_)
SumLineTotal(rows) ==
    IF rows = {} THEN 0
    ELSE LET x == CHOOSE y \in rows : TRUE IN x.LineTotal + SumLineTotal(rows \ {x})

\* C24: the LineTotal values that GET /api/orders/:id/details returned for an
\* order with a committed payment add up to the amount of that payment.
C24_LineTotalsMatchPayment ==
    \A r \in Reqs :
        (/\ req[r].op = "details" /\ req[r].pc = "done" /\ req[r].status = 200
         /\ req[r].json.rows # {})
        => \A p \in Payments :
              p.OrderID = req[r].body.orderId => SumLineTotal(req[r].json.rows) = p.Amount

\* Every order, committed or not, references a customer that is in storage.
OrdersReferenceCustomers ==
    \A o \in AllOrderRows : o.CustomerID \in Customers

\* C25: every order references an existing customer, and a customer delete
\* that the customer's orders made fail was answered 400.
C25_DeleteRefusedWith400 ==
    /\ OrdersReferenceCustomers
    /\ \A r \in Reqs :
          (/\ req[r].op = "customer" /\ req[r].pc = "done"
           /\ req[r].err = "ER_ROW_IS_REFERENCED_2")
          => req[r].status = 400

\* C26: a stock update answered 200 'Stock updated successfully' has changed
\* the stock by exactly stockChange.
C26_StockUpdatedMeansChanged ==
    \A r \in Reqs :
        (/\ req[r].op = "stock" /\ req[r].pc = "done" /\ req[r].status = 200
         /\ req[r].upd # <<>>)
        => req[r].upd[1].after = req[r].upd[1].before + req[r].body.stockChange

\* ------------------------------------------------------------- notification claims
\* The file holds what request r read: no other request has written since.
Undisturbed(r) == nreq[r].snap = Lists(file)

\* No notification id is twice in the store.
OneListEach ==
    /\ Ids(file.unread) \cap Ids(file.read) = {}
    /\ \A i, j \in DOMAIN file.unread : file.unread[i].id = file.unread[j].id => i = j
    /\ \A i, j \in DOMAIN file.read : file.read[i].id = file.read[j].id => i = j

FlagsAgree ==
    /\ \A i \in DOMAIN file.unread : file.unread[i].read = "false"
    /\ \A i \in DOMAIN file.read : file.read[i].read = "true"

\* A status-update that is written puts the notification in the list it names
\* and takes it out of the other one.
StatusUpdateMoves ==
    \A r \in Reqs :
        (nreq[r].op = "status" /\ nreq[r].pc = "write" /\ nreq'[r].pc = "done"
         /\ Undisturbed(r))
        => /\ nreq[r].body.id \in Ids(SourceList(Lists(file), nreq[r].body.read))
           /\ nreq[r].body.id \in Ids(TargetList(Lists(file'), nreq[r].body.read))
           /\ nreq[r].body.id \notin Ids(SourceList(Lists(file'), nreq[r].body.read))

\* A status-update of a notification that is in the list it names already
\* is answered 200 and writes nothing.
RepeatedStatusUpdateIdle ==
    \A r \in Reqs :
        (nreq[r].op = "status" /\ nreq[r].pc = "read" /\ nreq'[r].pc # "read"
         /\ nreq[r].body.id \in Ids(TargetList(Lists(file), nreq[r].body.read)))
        => nreq'[r].pc = "done" /\ nreq'[r].status = 200 /\ file' = file

\* What of C27 does not depend on the "read" member of a created notification.
NotificationsMoveBetweenLists ==
    /\ []OneListEach
    /\ [][StatusUpdateMoves]_vars
    /\ [][RepeatedStatusUpdateIdle]_vars

\* C27: each notification id is in at most one of the two lists, and its
\* "read" flag agrees with the list it is in (true in the read list, false in
\* the unread list); a status-update moves the notification between the lists
\* and a repeated identical status-update leaves the store unchanged.
C27_FlagAgreesWithList ==
    /\ []OneListEach
    /\ []FlagsAgree
    /\ [][StatusUpdateMoves]_vars
    /\ [][RepeatedStatusUpdateIdle]_vars

\* C28: neither the unread list nor the read list of the store holds more
\* than MAX_NOTIFICATIONS_PER_CATEGORY notifications.
C28_AtMostMaxPerCategory ==
    /\ Len(file.unread) <= MAX_NOTIFICATIONS_PER_CATEGORY
    /\ Len(file.read) <= MAX_NOTIFICATIONS_PER_CATEGORY

\* The notifications the answered requests have put in one list; they all fit
\* in it when they are no more than the cap.
Put(list) == {k \in NotifIds : life[k] = list}
Fits(list) == Cardinality(Put(list)) <= MAX_NOTIFICATIONS_PER_CATEGORY

\* C29: the stored file reflects the change of every request answered with
\* success, also when requests overlap between their read and their write of
\* the file: whenever every request has been answered, a notification is in
\* the list the last such request put it in (as far as the cap leaves room
\* for all of that list), and in no list once such a request took it out.
C29_NoLostUpdate ==
    (\A r \in Reqs : nreq[r].pc \in {"idle", "done"}) =>
    \A k \in NotifIds :
        /\ (life[k] = "unread" /\ Fits("unread")) => k \in Ids(file.unread)
        /\ (life[k] = "read" /\ Fits("read")) => k \in Ids(file.read)
        /\ life[k] = "gone" => k \notin Ids(file.unread) \cup Ids(file.read)

\* A mark-all-read request is answered in this step, and the file holds what
\* the request read (it reads in this very step, or nothing was written since).
MarkAllReadAnswered(r) ==
    /\ nreq[r].op = "markAll"
    /\ nreq[r].pc \in {"read", "enoent", "write"}
    /\ nreq'[r].pc = "done"
    /\ nreq[r].pc = "read" \/ Undisturbed(r)

\* Afterwards the unread list is empty and the read list holds the
\* notifications of both lists, each once; nothing changes when the unread
\* list was empty.
MarkAllReadConserves ==
    \A r \in Reqs :
        MarkAllReadAnswered(r)
        => /\ file'.unread = <<>>
           /\ Ids(file'.read) = Ids(file.unread) \cup Ids(file.read)
           /\ Len(file'.read) = Len(file.unread) + Len(file.read)
           /\ file.unread = <<>> => Lists(file') = Lists(file)

MarkAllReadFlags ==
    \A r \in Reqs :
        MarkAllReadAnswered(r) => \A i \in DOMAIN file'.read : file'.read[i].read = "true"

\* What of C30 does not depend on the "read" member of a created notification.
MarkAllReadLosesNothing == [][MarkAllReadConserves]_vars

\* C30: after mark-all-read the unread list is empty, the read list holds
\* exactly the notifications that were in either list before (none lost, none
\* twice), every one of them has read = true, and with an empty unread list
\* the store is left as it was.
C30_MarkAllReadConserves == [][MarkAllReadConserves /\ MarkAllReadFlags]_vars

====
